---- MODULE Spec2Model ----
(***************************************************************************)
(* A model of aoc_wim/zgrid.py: the lazy mapping ZDict, the sparse grid    *)
(* ZGrid (cell access, near, translate, graph, path_length) and its        *)
(* breadth-first search bfs.                                               *)
(*                                                                         *)
(* A position x + y*1j is the pair <<x, y>> (real part = column,           *)
(* imaginary part = row).  A Python dict is a sequence of entries in       *)
(* insertion order, each entry a record [z |-> key, g |-> value].          *)
(* An optional argument (None or a value) is a set with at most one        *)
(* element.                                                                *)
(***************************************************************************)
EXTENDS Integers, Sequences, FiniteSets, TLC

\* ------------------------------------------------------------- bounds
\* Cells of the window in which cells are stored and asked for.
MaxCells == 6
\* Most cells a grid that is written cell by cell holds at once.
MaxStored == 3
\* Largest max_depth argument handed to bfs.
MaxDepthArg == 2
\* Most invocations of the backing function in a sequence of reads.
MaxCalls == 3

\* ------------------------------------------------------------ glyphs
On == "#"
Off == "."
Marker == "A"
NoneVal == "None"
Glyphs == {On, Off, Marker}

\* ---------------------------------------------------------- positions
\* The window: rows of three columns, filled in row-major order.
Cell(i) == <<i % 3, i \div 3>>
Window == {Cell(i) : i \in 0..(MaxCells - 1)}
WindowSeq == [i \in 1..MaxCells |-> Cell(i - 1)]
LastRow == (MaxCells - 1) \div 3
\* How far a bounded search started in the window can look.
Margin == IF MaxDepthArg > LastRow + 2 THEN MaxDepthArg + 1 ELSE LastRow + 3
Universe == {<<x, y>> : x \in (0 - Margin)..(2 + Margin),
                        y \in (0 - Margin)..(LastRow + Margin)}
\* Keys that are no int, float or complex (a string, a tuple).
OtherKeys == {<<"key">>}
IsNumeric(z) == z \notin OtherKeys

VARIABLES
    d,          \* self.d: the grid's mapping
    lazy,       \* self.d is a ZDict
    func,       \* the callable behind the ZDict
    flog,       \* every invocation of func so far: [z, out]
    pc,         \* bfs: "idle", "loop", "returned", "raised"
    start,      \* bfs: the z0 argument
    target,     \* bfs: the target argument (optional)
    max_depth,  \* bfs: the max_depth argument (optional)
    queue,      \* bfs: the deque of <<position, depth>>
    seen,       \* bfs: the dict position -> depth
    writes,     \* bfs: every assignment seen[z0] = depth, in order
    args,       \* the last call's operation and arguments
    ret         \* the last call's outcome [kind, val]: kind is what was
                \* returned ("map", "length", "list", "graph", "glyph",
                \* "none") or the exception raised (val is then <<>>)

vars == <<d, lazy, func, flog, pc, start, target, max_depth, queue, seen,
          writes, args, ret>>
bfsVars == <<pc, start, target, max_depth, queue, seen, writes>>

\* ------------------------------------------------------ dict helpers
Keys(dd) == {dd[i].z : i \in DOMAIN dd}
Has(dd, z) == \E i \in DOMAIN dd : dd[i].z = z
\* dd[z] for a key that is there
Get(dd, z) == dd[CHOOSE i \in DOMAIN dd : dd[i].z = z].g
\* dd.get(z): None when z is not a key
DictGet(dd, z) == IF Has(dd, z) THEN Get(dd, z) ELSE NoneVal
\* dd[z] = g: a key that is there keeps its place, a new one goes last
Put(dd, z, g) ==
    IF Has(dd, z)
    THEN [i \in DOMAIN dd |-> IF dd[i].z = z THEN [z |-> z, g |-> g] ELSE dd[i]]
    ELSE Append(dd, [z |-> z, g |-> g])
\* del dd[z]
Del(dd, z) == SelectSeq(dd, LAMBDA e : e.z # z)


\* ------------------------------------------------------ ZDict (lazy)
\* What one invocation of func can do: return a glyph, or raise.
Value(g) == [kind |-> "value", g |-> g]
Raise(e) == [kind |-> e, g |-> NoneVal]
Outcomes == {Value(g) : g \in {On, Off}} \cup {Raise("KeyError"), Raise("FuncError")}

\* The callables the searched grids are built from.
\*   plane:  on everywhere
\*   room:   on inside the window, off outside
\*   fenced: on inside the window, raises outside
\*   sparse: on inside the window, raises KeyError outside
LazyFuncs == {"plane", "room", "fenced", "sparse"}
FuncApply(f, z) ==
    IF f = "plane" \/ z \in Window THEN Value(On)
    ELSE IF f = "room" THEN Value(Off)
    ELSE IF f = "sparse" THEN Raise("KeyError")
    ELSE Raise("FuncError")

\* Mutant: the value is returned and not stored.
Missing_NoStore(dd, z, out) ==
    IF ~IsNumeric(z)
    THEN [kind |-> "NotImplementedError", val |-> NoneVal, d |-> dd, called |-> FALSE]
    ELSE IF out.kind # "value"
    THEN [kind |-> out.kind, val |-> NoneVal, d |-> dd, called |-> TRUE]
    ELSE [kind |-> "ok", val |-> out.g, d |-> dd, called |-> TRUE]
\* Mutant: the entry is made before func is invoked, and stays when it raises.
Missing_StoreFirst(dd, z, out) ==
    IF ~IsNumeric(z)
    THEN [kind |-> "NotImplementedError", val |-> NoneVal, d |-> dd, called |-> FALSE]
    ELSE IF out.kind # "value"
    THEN [kind |-> out.kind, val |-> NoneVal, d |-> Put(dd, z, NoneVal), called |-> TRUE]
    ELSE LET d1 == Put(dd, z, out.g)
         IN  [kind |-> "ok", val |-> Get(d1, z), d |-> d1, called |-> TRUE]

\* ZDict.__missing__(z), func(z) doing `out` if it is invoked.
\* [kind, val, d, called]: the outcome, the value returned, the mapping
\* afterwards, whether func was invoked.
Missing(dd, z, out) ==
    IF ~IsNumeric(z)
    THEN [kind |-> "NotImplementedError", val |-> NoneVal, d |-> dd, called |-> FALSE]
    ELSE IF out.kind # "value"
    THEN [kind |-> out.kind, val |-> NoneVal, d |-> dd, called |-> TRUE]
    ELSE LET d1 == Put(dd, z, out.g)
         IN  [kind |-> "ok", val |-> Get(d1, z), d |-> d1, called |-> TRUE]

\* ZGrid.__getitem__(key): self.d[key]
GetItem(dd, isLazy, z, out) ==
    IF Has(dd, z)
    THEN [kind |-> "ok", val |-> Get(dd, z), d |-> dd, called |-> FALSE]
    ELSE IF isLazy THEN Missing(dd, z, out)
    ELSE [kind |-> "KeyError", val |-> NoneVal, d |-> dd, called |-> FALSE]

Logged(log, z, out, r) ==
    IF r.called THEN Append(log, [z |-> z, out |-> out]) ELSE log

\* -------------------------------------------------------------- near
Near4(z) == << <<z[1], z[2] - 1>>, <<z[1] + 1, z[2]>>,
               <<z[1], z[2] + 1>>, <<z[1] - 1, z[2]>> >>
Near8(z) == << <<z[1] - 1, z[2] - 1>>, <<z[1], z[2] - 1>>, <<z[1] + 1, z[2] - 1>>,
               <<z[1] - 1, z[2]>>, <<z[1] + 1, z[2]>>,
               <<z[1] - 1, z[2] + 1>>, <<z[1], z[2] + 1>>, <<z[1] + 1, z[2] + 1>> >>
\* ZGrid.near(z, n): the function ends without a return for another n
NearResult(z, n) ==
    IF n = 4 THEN [kind |-> "list", val |-> Near4(z)]
    ELSE IF n = 8 THEN [kind |-> "list", val |-> Near8(z)]
    ELSE [kind |-> "none", val |-> <<>>]

\* --------------------------------------------------------------- bfs
Entry(z, depth) == [z |-> z, g |-> depth]

\* Mutant: depth >= max_depth.
DepthExceeded_AtDepth(depth, md) == \E m \in md : depth >= m
\* Mutant: max_depth is not looked at.
DepthExceeded_Never(depth, md) == FALSE
\* Mutant: the target is not looked at.
IsTarget_Never(z, t) == FALSE

\* line 185: max_depth is not None and depth > max_depth
DepthExceeded(depth, md) == \E m \in md : depth > m
\* line 189: target is not None and z0 == target
IsTarget(z, t) == z \in t

\* lines 192-199: one neighbour z of the cell recorded at `depth`.
\* st = [d, flog, queue, err]; after a raise the rest is skipped.
\* Mutant: the neighbour is enqueued whatever its glyph.
BfsVisited_AnyGlyph(st, z, depth, out, r) ==
    IF r.kind = "KeyError" THEN [st EXCEPT !.flog = Logged(st.flog, z, out, r)]
    ELSE IF r.kind # "ok"
    THEN [st EXCEPT !.err = r.kind, !.flog = Logged(st.flog, z, out, r), !.d = r.d]
    ELSE [d |-> r.d, flog |-> Logged(st.flog, z, out, r), err |-> "",
          queue |-> Append(st.queue, Entry(z, depth + 1))]
BfsVisited(st, z, depth, out, r) ==
    IF r.kind = "KeyError" THEN [st EXCEPT !.flog = Logged(st.flog, z, out, r)]
    ELSE IF r.kind # "ok"
    THEN [st EXCEPT !.err = r.kind, !.flog = Logged(st.flog, z, out, r), !.d = r.d]
    ELSE [d |-> r.d, flog |-> Logged(st.flog, z, out, r), err |-> "",
          queue |-> IF r.val = On
                    THEN Append(st.queue, Entry(z, depth + 1))
                    ELSE st.queue]
BfsVisit(st, z, depth, sn) ==
    IF st.err # "" \/ Has(sn, z) THEN st
    ELSE CHOOSE res \in {BfsVisited(st, z, depth, FuncApply(func, z), r) :
                           r \in {GetItem(st.d, lazy, z, FuncApply(func, z))}} : TRUE

\* line 191: for z in self.near(z0)
RECURSIVE BfsExpand(_, _, _, _, _)
BfsExpand(st, zs, i, depth, sn) ==
    IF i > Len(zs) THEN st
    ELSE LET nxt == CHOOSE r \in {BfsVisit(s, zs[i], depth, sn) : s \in {st}} : TRUE
         IN  BfsExpand(nxt, zs, i + 1, depth, sn)

\* lines 177-182: the call, up to the loop.  One search per run.
BfsCall(t, z, md) ==
    /\ pc = "idle"
    /\ LET out == FuncApply(func, z)
           r == GetItem(d, lazy, z, out)
       IN  /\ d' = r.d
           /\ flog' = Logged(flog, z, out, r)
           /\ start' = z
           /\ seen' = <<>>
           /\ writes' = <<>>
           /\ args' = [op |-> "bfs"]
           /\ IF r.kind = "ok" /\ r.val = On
              THEN /\ pc' = "loop"
                   /\ target' = t
                   /\ max_depth' = md
                   /\ queue' = <<Entry(z, 0)>>
                   /\ ret' = [kind |-> "running", val |-> <<>>]
              ELSE /\ pc' = "raised"
                   /\ target' = {}
                   /\ max_depth' = {}
                   /\ queue' = <<>>
                   /\ ret' = [kind |-> IF r.kind = "ok" THEN "NotImplementedError"
                                       ELSE r.kind,
                              val |-> <<>>]
    /\ UNCHANGED <<lazy, func>>

\* The positions a lazy grid is asked for stay inside the universe: a
\* search that would leave it is cut there.
InUniverse(z) == \A i \in 1..4 : Near4(z)[i] \in Universe

\* lines 183-199: one iteration of the loop
BfsStep ==
    /\ pc = "loop"
    /\ queue # <<>>
    /\ LET z0 == Head(queue).z
           depth == Head(queue).g
           q1 == Tail(queue)
       IN  /\ lazy => InUniverse(z0)
           /\ IF DepthExceeded(depth, max_depth)
              THEN /\ pc' = "returned"
                   /\ ret' = [kind |-> "map", val |-> seen]
                   /\ queue' = q1
                   /\ UNCHANGED <<d, flog, seen, writes>>
              ELSE IF Has(seen, z0)
              THEN /\ queue' = q1
                   /\ UNCHANGED <<d, flog, seen, writes, pc, ret>>
              ELSE LET sn == Put(seen, z0, depth)
                   IN  /\ seen' = sn
                       /\ writes' = Append(writes, Entry(z0, depth))
                       /\ IF IsTarget(z0, target)
                          THEN /\ pc' = "returned"
                               /\ ret' = [kind |-> "map", val |-> sn]
                               /\ queue' = q1
                               /\ UNCHANGED <<d, flog>>
                          ELSE \E st \in {BfsExpand([d |-> d, flog |-> flog,
                                                     queue |-> q1, err |-> ""],
                                                    NearResult(z0, 4).val, 1, depth, sn)} :
                                   /\ d' = st.d
                                   /\ flog' = st.flog
                                   /\ queue' = st.queue
                                   /\ IF st.err = ""
                                      THEN UNCHANGED <<pc, ret>>
                                      ELSE /\ pc' = "raised"
                                           /\ ret' = [kind |-> st.err, val |-> <<>>]
    /\ UNCHANGED <<lazy, func, start, target, max_depth, args>>

\* lines 183, 200: the queue is empty
BfsReturn ==
    /\ pc = "loop"
    /\ queue = <<>>
    /\ pc' = "returned"
    /\ ret' = [kind |-> "map", val |-> seen]
    /\ UNCHANGED <<d, lazy, func, flog, start, target, max_depth, queue, seen,
                   writes, args>>

\* ------------------------------------------------ construction (47-59)
\* The mapping with the cells S, glyphs m, in row-major order.
DictOf(S, m) ==
    LET ks == SelectSeq(WindowSeq, LAMBDA z : z \in S)
    IN  [i \in DOMAIN ks |-> [z |-> ks[i], g |-> m[ks[i]]]]
SmallSets == {S \in SUBSET Window : Cardinality(S) <= MaxStored}

Idle ==
    /\ flog = <<>>
    /\ pc = "idle"
    /\ start = <<0, 0>>
    /\ target = {}
    /\ max_depth = {}
    /\ queue = <<>>
    /\ seen = <<>>
    /\ writes = <<>>
    /\ args = [op |-> "init"]
    /\ ret = [kind |-> "none", val |-> <<>>]

\* A grid over a prebuilt mapping with the cells S, or over a callable.
InitGrids(Ss) ==
    /\ \/ /\ lazy = FALSE
          /\ func = "none"
          /\ \E S \in Ss : \E m \in [S -> {On, Off}] : d = DictOf(S, m)
       \/ /\ lazy = TRUE
          /\ func \in LazyFuncs
          /\ d = <<>>
    /\ Idle
InitBfs == InitGrids(SUBSET Window)
InitSmall == InitGrids(SmallSets)

\* ------------------------------------------------ graph (lines 142-158)
EmptyGraph == [nodes |-> {}, edges |-> {}, extra |-> <<>>]
\* g.add_edge(u, v): an undirected edge; networkx adds both ends as nodes
AddEdge(g, u, v) == [g EXCEPT !.nodes = @ \cup {u, v}, !.edges = @ \cup {{u, v}}]
\* Mutant: down is pos + 1 + 1j.
GraphVisit_Diagonal(g, dd, e, node_glyphs) ==
    IF e.g \notin node_glyphs THEN g
    ELSE LET right == <<e.z[1] + 1, e.z[2]>>
             down == <<e.z[1] + 1, e.z[2] + 1>>
             g1 == [g EXCEPT !.nodes = @ \cup {e.z},
                             !.extra = IF e.g # On THEN Put(@, e.g, e.z) ELSE @]
             g2 == IF DictGet(dd, right) \in node_glyphs
                   THEN AddEdge(g1, e.z, right) ELSE g1
         IN  IF DictGet(dd, down) \in node_glyphs
             THEN AddEdge(g2, e.z, down) ELSE g2
\* Mutant: only the right neighbour is tested.
GraphVisit_RightOnly(g, dd, e, node_glyphs) ==
    IF e.g \notin node_glyphs THEN g
    ELSE LET right == <<e.z[1] + 1, e.z[2]>>
             g1 == [g EXCEPT !.nodes = @ \cup {e.z},
                             !.extra = IF e.g # On THEN Put(@, e.g, e.z) ELSE @]
         IN  IF DictGet(dd, right) \in node_glyphs
             THEN AddEdge(g1, e.z, right) ELSE g1
\* lines 148-157: one item (pos, glyph) of self.d.items()
GraphVisit(g, dd, e, node_glyphs) ==
    IF e.g \notin node_glyphs THEN g
    ELSE LET right == <<e.z[1] + 1, e.z[2]>>
             down == <<e.z[1], e.z[2] + 1>>
             g1 == [g EXCEPT !.nodes = @ \cup {e.z},
                             !.extra = IF e.g # On THEN Put(@, e.g, e.z) ELSE @]
             g2 == IF DictGet(dd, right) \in node_glyphs
                   THEN AddEdge(g1, e.z, right) ELSE g1
         IN  IF DictGet(dd, down) \in node_glyphs
             THEN AddEdge(g2, e.z, down) ELSE g2

RECURSIVE GraphFrom(_, _, _, _)
GraphFrom(g, dd, i, node_glyphs) ==
    IF i > Len(dd) THEN g
    ELSE GraphFrom(GraphVisit(g, dd, dd[i], node_glyphs), dd, i + 1, node_glyphs)

\* ZGrid.graph(extra)
Graph(dd, extra) == GraphFrom(EmptyGraph, dd, 1, {On} \cup extra)

\* networkx.shortest_path_length(g, source, target): breadth-first over the
\* edges of g; NodeNotFound for an end that is no node, NetworkXNoPath when
\* the search ends without meeting the target.
RECURSIVE HopsFrom(_, _, _, _, _)
HopsFrom(g, visited, frontier, t, k) ==
    IF t \in frontier THEN [kind |-> "length", val |-> k]
    ELSE IF frontier = {} THEN [kind |-> "NetworkXNoPath", val |-> <<>>]
    ELSE LET nxt == {v \in g.nodes \ visited : \E u \in frontier : {u, v} \in g.edges}
         IN  HopsFrom(g, visited \cup nxt, nxt, t, k + 1)
ShortestPathLength(g, s, t) ==
    IF s \notin g.nodes \/ t \notin g.nodes
    THEN [kind |-> "NodeNotFound", val |-> <<>>]
    ELSE HopsFrom(g, {s}, {s}, t, 0)

\* ZGrid.path_length(z, z0), lines 164-166
PathLength(dd, z, z0) == ShortestPathLength(Graph(dd, {}), z0, z)

\* path_length(z, start) asked of the grid a plain search from start has
\* just been run on.
PathLengthCall(z) ==
    /\ pc \in {"returned", "raised"}
    /\ target = {}
    /\ max_depth = {}
    /\ args' = [op |-> "path_length", z |-> z]
    /\ ret' = PathLength(d, z, start)
    /\ UNCHANGED <<d, lazy, func, flog, bfsVars>>

Depths == (0 - 1)..MaxDepthArg

\* bfs(z0=z), bfs(z0=z, max_depth=m), bfs(t, z0=z), and the loop
NextSearch ==
    \/ \E z \in Window : BfsCall({}, z, {})
    \/ \E z \in Window : \E m \in Depths : BfsCall({}, z, {m})
    \/ \E z \in Window : \E t \in Window : BfsCall({t}, z, {})
    \/ BfsStep
    \/ BfsReturn

NextBfs ==
    \/ NextSearch
    \/ \E z \in Window : PathLengthCall(z)

SpecBfs == InitBfs /\ [][NextBfs]_vars
\* The interpreter goes on with a loop that can go on: every iteration
\* that is possible is taken.
SpecBfsFair ==
    InitSmall /\ [][NextSearch]_vars /\ WF_vars(BfsStep) /\ WF_vars(BfsReturn)


\* ------------------------------------------------- reads of a ZDict
\* The keys read: two positions and a key that is no number.
ReadKeys == {Cell(0), Cell(1)} \cup OtherKeys

\* grid[z], which is self.d[z] (lines 64-65, 20-25); func does `out` if it
\* is invoked, and is invoked at most MaxCalls times in a run.
Read(z, out) ==
    /\ pc = "idle"
    /\ \E r \in {GetItem(d, lazy, z, out)} :
          /\ r.called => Len(flog) < MaxCalls
          /\ d' = r.d
          /\ flog' = Logged(flog, z, out, r)
          /\ ret' = IF r.kind = "ok" THEN [kind |-> "glyph", val |-> r.val]
                    ELSE [kind |-> r.kind, val |-> <<>>]
    /\ args' = [op |-> "read", z |-> z]
    /\ UNCHANGED <<lazy, func, bfsVars>>

\* ZGrid(f) for a callable f that may return anything and may raise
InitLazy ==
    /\ lazy = TRUE
    /\ func = "any"
    /\ d = <<>>
    /\ Idle

NextLazy == \E z \in ReadKeys : \E out \in Outcomes : Read(z, out)

SpecLazy == InitLazy /\ [][NextLazy]_vars

\* ------------------------------------------- writing a grid cell by cell
\* grid[z] = g (lines 61-62)
SetItem(z, g) ==
    /\ pc = "idle"
    /\ Has(d, z) \/ Len(d) < MaxStored
    /\ d' = Put(d, z, g)
    /\ args' = [op |-> "setitem"]
    /\ ret' = [kind |-> "none", val |-> <<>>]
    /\ UNCHANGED <<lazy, func, flog, bfsVars>>

\* del grid[z] (lines 67-68)
DelItem(z) ==
    /\ pc = "idle"
    /\ d' = Del(d, z)
    /\ args' = [op |-> "delitem"]
    /\ ret' = IF Has(d, z) THEN [kind |-> "none", val |-> <<>>]
              ELSE [kind |-> "KeyError", val |-> <<>>]
    /\ UNCHANGED <<lazy, func, flog, bfsVars>>

\* Mutant: the table is applied to its own result.
TranslateCell_Chained(dd, z, table) ==
    IF Get(dd, z) \notin DOMAIN table THEN dd
    ELSE IF table[Get(dd, z)] \in DOMAIN table
    THEN Put(dd, z, table[table[Get(dd, z)]])
    ELSE Put(dd, z, table[Get(dd, z)])
\* lines 120-121: the cell at z
TranslateCell(dd, z, table) ==
    IF Get(dd, z) \in DOMAIN table THEN Put(dd, z, table[Get(dd, z)]) ELSE dd

\* line 119: for z in self.d
RECURSIVE TranslateFrom(_, _, _, _)
TranslateFrom(dd, ks, i, table) ==
    IF i > Len(ks) THEN dd
    ELSE LET nxt == CHOOSE r \in {TranslateCell(x, ks[i], table) : x \in {dd}} : TRUE
         IN  TranslateFrom(nxt, ks, i + 1, table)

KeySeq(dd) == [i \in DOMAIN dd |-> dd[i].z]

\* ZGrid.translate(table), lines 118-121
Translate(table) ==
    /\ pc = "idle"
    /\ d' = TranslateFrom(d, KeySeq(d), 1, table)
    /\ args' = [op |-> "translate", table |-> table]
    /\ ret' = [kind |-> "none", val |-> <<>>]
    /\ UNCHANGED <<lazy, func, flog, bfsVars>>

\* ZGrid.graph(extra), lines 142-158
GraphCall(extra) ==
    /\ pc = "idle"
    /\ args' = [op |-> "graph", extra |-> extra]
    /\ ret' = [kind |-> "graph", val |-> Graph(d, extra)]
    /\ UNCHANGED <<d, lazy, func, flog, bfsVars>>

\* The tables handed to translate: a chain # -> . -> A, a swap of # and .,
\* a table for the marker alone, and the empty table.
Tables == { [g \in {On, Off} |-> IF g = On THEN Off ELSE Marker],
            [g \in {On, Off} |-> IF g = On THEN Off ELSE On],
            [g \in {Marker} |-> On],
            [g \in {} |-> On] }
Extras == {{}, {Marker}}

\* ZGrid(): an empty grid
InitGrid ==
    /\ lazy = FALSE
    /\ func = "none"
    /\ d = <<>>
    /\ Idle

NextGrid ==
    \/ \E z \in Window : \E g \in Glyphs : SetItem(z, g)
    \/ \E z \in Window : DelItem(z)
    \/ \E table \in Tables : Translate(table)
    \/ \E extra \in Extras : GraphCall(extra)

SpecGrid == InitGrid /\ [][NextGrid]_vars

\* ------------------------------------------------------- calls of near
Arities == 0..9

\* ZGrid.near(z, n), lines 97-105
NearCall(z, n) ==
    /\ pc = "idle"
    /\ args' = [op |-> "near", z |-> z, n |-> n]
    /\ ret' = NearResult(z, n)
    /\ UNCHANGED <<d, lazy, func, flog, bfsVars>>

NextNear == \E z \in Universe : \E n \in Arities : NearCall(z, n)

SpecNear == InitGrid /\ [][NextNear]_vars

\* ----------------------------------------------- what a search should find
\* Stated from the grid alone, without the queue: the layers of on-cells
\* around the start.
Adjacent(a, b) ==
    \/ a[2] = b[2] /\ (a[1] = b[1] + 1 \/ b[1] = a[1] + 1)
    \/ a[1] = b[1] /\ (a[2] = b[2] + 1 \/ b[2] = a[2] + 1)
OnCells(dd) == {dd[i].z : i \in {j \in DOMAIN dd : dd[j].g = On}}
\* Layers(...)[k + 1]: the on-cells whose least number of steps is k
RECURSIVE Layers(_, _, _)
Layers(on, visited, frontier) ==
    IF frontier = {} THEN <<>>
    ELSE LET nxt == {z \in on \ visited : \E y \in frontier : Adjacent(y, z)}
         IN  <<frontier>> \o Layers(on, visited \cup nxt, nxt)
LayersOf(dd, s) == Layers(OnCells(dd), {s}, {s})
Within(L, k) == UNION {L[i] : i \in {j \in DOMAIN L : j <= k + 1}}
DepthIn(L, z) == (CHOOSE i \in DOMAIN L : z \in L[i]) - 1
\* the map m holds exactly the cells of L up to depth k, at their depths
IsLayerMap(m, L, k) ==
    /\ Keys(m) = Within(L, k)
    /\ \A i \in DOMAIN m : m[i].g = DepthIn(L, m[i].z)
NoDup(seq) == \A i, j \in DOMAIN seq : seq[i].z = seq[j].z => i = j

Plain == target = {} /\ max_depth = {}
BfsReturned == pc = "returned" /\ args.op = "bfs"

\* C1: a search without target and max_depth returns exactly the on-cells
\* reachable from the start through 4-adjacent stored on-cells, each at its
\* least number of steps (the start at 0); every position is recorded once
\* and its depth is never written again.
C1_BfsShortest ==
    /\ NoDup(writes)
    /\ seen = writes
    /\ BfsReturned /\ Plain =>
          LET L == LayersOf(d, start)
          IN  /\ ret.val = seen
              /\ IsLayerMap(ret.val, L, Len(L))
              /\ Get(ret.val, start) = 0
C1_Witness ==
    /\ BfsReturned /\ Plain /\ ~lazy
    /\ Len(ret.val) = 3
    /\ \E i \in DOMAIN ret.val : ret.val[i].g = 2
    /\ \E i \in DOMAIN d : d[i].g = Off
    /\ \E z \in OnCells(d) : ~Has(ret.val, z)

\* C2: with max_depth = m and no target the search returns exactly the
\* entries of the unrestricted result of depth <= m: nothing for m < 0,
\* the start alone for m = 0.
C2_MaxDepth ==
    BfsReturned /\ target = {} =>
        \A m \in max_depth :
            /\ IsLayerMap(ret.val, LayersOf(d, start), m)
            /\ \A i \in DOMAIN ret.val : ret.val[i].g <= m
            /\ m < 0 => ret.val = <<>>
            /\ m = 0 => ret.val = <<Entry(start, 0)>>
C2_Witness ==
    /\ BfsReturned /\ target = {} /\ max_depth = {1} /\ ~lazy
    /\ Len(ret.val) = 2
    /\ Len(LayersOf(d, start)) = 3

\* C3: with a target that can be reached the search stops when the target
\* is dequeued: the map holds the target at its least distance dt, every
\* on-cell nearer than dt, nothing deeper than dt, and the target is the
\* last position recorded.  With a target that cannot be reached the result
\* is the unrestricted one, without the target.
C3_Target ==
    BfsReturned /\ max_depth = {} =>
        \A t \in target :
            LET L == LayersOf(d, start)
                m == ret.val
            IN  IF t \in Within(L, Len(L))
                THEN LET dt == DepthIn(L, t)
                     IN  /\ Has(m, t) /\ Get(m, t) = dt
                         /\ Within(L, dt - 1) \subseteq Keys(m)
                         /\ Keys(m) \subseteq Within(L, dt)
                         /\ \A i \in DOMAIN m : m[i].g = DepthIn(L, m[i].z)
                         /\ m[Len(m)].z = t
                ELSE /\ IsLayerMap(m, L, Len(L))
                     /\ ~Has(m, t)
C3_Witness ==
    /\ BfsReturned /\ max_depth = {} /\ ~lazy
    /\ \E t \in target : Has(ret.val, t) /\ Get(ret.val, t) = 1
    /\ Len(ret.val) = 2
    /\ Cardinality(OnCells(d)) = 3
    /\ queue # <<>>

\* C10: on a grid that is not lazy, path_length(target, source) returns a
\* value exactly when source is on and target is a key of bfs(start=source),
\* and the value is that key's depth; otherwise it fails.
C10_PathLengthIsBfs ==
    args.op = "path_length" /\ ~lazy =>
        /\ ret.kind = "length" <=> (pc = "returned" /\ Has(seen, args.z))
        /\ ret.kind = "length" => ret.val = Get(seen, args.z)
        /\ ret.kind # "length" => ret.kind \in {"NodeNotFound", "NetworkXNoPath"}
C10_Witness ==
    /\ args.op = "path_length" /\ ~lazy
    /\ ret.kind = "length" /\ ret.val = 2

Endless == lazy /\ func = "plane" /\ Plain
Calls(z) == {i \in DOMAIN flog : flog[i].z = z}
Returns(z) == {i \in Calls(z) : flog[i].out.kind = "value"}

C5_FailedReadKeepsMapping ==
    [][ /\ args'.op = "read" /\ ret'.kind # "glyph" =>
              /\ d' = d
              /\ ~Has(d', args'.z)
              /\ IF IsNumeric(args'.z)
                 THEN /\ flog' = Append(flog, flog'[Len(flog')])
                      /\ flog'[Len(flog')].z = args'.z
                      /\ ret'.kind = flog'[Len(flog')].out.kind
                 ELSE /\ flog' = flog
                      /\ ret'.kind = "NotImplementedError"
        /\ args'.op = "read" /\ IsNumeric(args'.z) /\ ~Has(d, args'.z) =>
              Len(flog') = Len(flog) + 1
      ]_vars
C5_Witness ==
    /\ args.op = "read" /\ ret.kind = "FuncError"
    /\ Cardinality(Calls(args.z)) = 2
    /\ Returns(args.z) = {}
    /\ Len(d) = 1

\* ------------------------------------------------------------ the graph
\* C6: graph(extra) has as nodes exactly the stored positions whose glyph
\* is on or in extra, and an edge between two nodes exactly when they are
\* horizontally or vertically adjacent, whatever order the cells were
\* written in.
NodesOf(dd, glyphs) == {dd[i].z : i \in {j \in DOMAIN dd : dd[j].g \in glyphs}}
C6_GraphIsGridGraph ==
    args.op = "graph" =>
        LET N == NodesOf(d, {On} \cup args.extra)
        IN  /\ ret.val.nodes = N
            /\ ret.val.edges = {{p[1], p[2]} : p \in {q \in N \X N : Adjacent(q[1], q[2])}}
C6_Witness ==
    /\ args.op = "graph" /\ args.extra = {Marker}
    /\ Len(d) = 3
    /\ d[1].z = <<1, 0>> /\ d[1].g = On
    /\ d[2].z = <<0, 1>> /\ d[2].g = Marker
    /\ d[3].z = <<0, 0>> /\ d[3].g = On
    /\ Cardinality(ret.val.edges) = 2

\* C7: translate(table) replaces each stored glyph at most once: a glyph g
\* that is a key of table becomes table[g] (never table[table[g]]), any
\* other glyph stays; the stored positions and their order stay.
C7_TranslateOnce ==
    [][ args'.op = "translate" =>
            /\ Len(d') = Len(d)
            /\ \A i \in DOMAIN d :
                  /\ d'[i].z = d[i].z
                  /\ d'[i].g = IF d[i].g \in DOMAIN args'.table
                               THEN args'.table[d[i].g]
                               ELSE d[i].g
      ]_vars
C7_Witness ==
    /\ args.op = "translate"
    /\ Off \in DOMAIN args.table /\ args.table[Off] = Marker
    /\ Len(d) = 3
    /\ d[1].g = Off /\ d[2].g = Marker /\ d[3].g = Marker

\* ------------------------------------------------------------------ near
\* C8: near(z, n) fails with an invalid-arity error for n other than 4 and
\* 8, never returning to the caller; for 4 it returns [up, right, down,
\* left], for 8 the eight surrounding positions row by row.
C8_InvalidArityRaises ==
    args.op = "near" =>
        LET x == args.z[1]
            y == args.z[2]
        IN  /\ args.n \notin {4, 8} => ret.kind = "InvalidArityError"
            /\ args.n = 4 => ret.val = << <<x, y - 1>>, <<x + 1, y>>,
                                          <<x, y + 1>>, <<x - 1, y>> >>
            /\ args.n = 8 => ret.val = [i \in 1..8 |->
                                 LET k == IF i <= 4 THEN i - 1 ELSE i
                                 IN  <<x + (k % 3) - 1, y + (k \div 3) - 1>>]

====
